---- MODULE Spec2Model ----
(***************************************************************************)
(* Model of src/main.py: the MoviePy demo pipeline.                        *)
(*                                                                         *)
(* The file holds two scripts, one after the other (lines 1-142 and        *)
(* 143-284), and running it runs both in one process.  Each runs the same  *)
(* pipeline: build one clip per ANIMATIONS entry, concatenate the clips,   *)
(* load the song, loop it to len(clips) * PER_CLIP_DURATION seconds,       *)
(* attach it and render to the same output path.  The second script        *)
(* starts only when the first one's write_videofile has returned; it       *)
(* rebinds ANIMATIONS, clips, video, audio_clip and audio_looped.          *)
(*                                                                         *)
(* Units: PER_CLIP_DURATION, total_duration and audio tracks are in        *)
(* seconds (an audio track is the sequence of its one-second samples);     *)
(* video clip durations and effect times are in milliseconds, because the  *)
(* effects use 0.8 s, 0.1 s and 1/FPS = 0.125 s.                           *)
(*                                                                         *)
(* The MoviePy calls are modelled by what MoviePy v2 does with them:       *)
(*   Freeze.apply          concatenates clip[:t], a frozen frame lasting   *)
(*                         freeze_duration, and clip[t:]                   *)
(*   TimeSymmetrize.apply  concatenates the clip and its reverse           *)
(*   CompositeVideoClip    lasts as long as its longest layer              *)
(*   concatenate_videoclips takes max() over the clip sizes, which raises  *)
(*                         ValueError on an empty list, and lasts the sum  *)
(*                         of the clips' durations                         *)
(*   AudioLoop.apply       n_loops = int(duration / clip.duration) + 1;    *)
(*                         concatenate_audioclips(n_loops * [clip])        *)
(*                         .with_duration(duration)                        *)
(***************************************************************************)
EXTENDS Integers, Sequences, FiniteSets, TLC

VARIABLES
    registry,            \* ANIMATIONS of the first script (lines 44-97)
    registry2,           \* ANIMATIONS of the second script (lines 242-266)
    textclip_ok,         \* TextClip accepts make_clip's arguments (line 234)
    stale_output,        \* a file was at assets/output.mp4 before the run
    script,              \* the script running: 1 or 2
    comp,                \* the list the comprehension of line 269 is building
    per_clip_duration,   \* PER_CLIP_DURATION, seconds
    image_ok,            \* assets/pic.png can be loaded
    audio_ok,            \* assets/song.mp3 can be loaded
    song,                \* the content of assets/song.mp3
    pc,                  \* the next statement of the script
    clips,               \* clips
    video,               \* video
    total_duration,      \* total_duration, seconds
    audio_clip,          \* audio_clip
    audio_looped,        \* audio_looped
    output,              \* the file at assets/output.mp4: "none", "stale"
                         \* (the file that was there before the run),
                         \* "partial" or "complete" (written by this run)
    err,                 \* the exception that ended the run, or "none"
    failed_at,           \* the statement that raised it, or "none"
    log,                 \* the statements executed so far, in order,
                         \* each with the script it belongs to
    fit_in,              \* AudioLoop harness: the track
    fit_target,          \* AudioLoop harness: the target duration
    fit_out,             \* AudioLoop harness: the track fitted once
    fit_again,           \* AudioLoop harness: the fitted track fitted again
    fit_stage,           \* AudioLoop harness: number of fits done
    seq_args,            \* seq harness: the producers passed to seq
    seq_out,             \* seq harness: the list seq returned
    seq_done             \* seq harness: seq has returned

inputs == <<registry, registry2, image_ok, audio_ok, textclip_ok,
            stale_output, song>>
pipeline_vars == <<inputs, script, comp, pc, clips, video, total_duration,
                   audio_clip, audio_looped, output, err, failed_at, log>>
fit_vars == <<fit_in, fit_target, fit_out, fit_again, fit_stage>>
seq_vars == <<seq_args, seq_out, seq_done>>
vars == <<pipeline_vars, per_clip_duration, fit_vars, seq_vars>>

(***************************************************************************)
(* Bounds of the model.                                                    *)
(***************************************************************************)
MaxEntries   == 2    \* entries of the first script's ANIMATIONS
MaxEntries2  == 1    \* entries of the second script's ANIMATIONS
MaxPerClip   == 2    \* PER_CLIP_DURATION ranges over 1..MaxPerClip
MaxAudio     == 2    \* native duration of the song, seconds
MaxTrackLen  == 3    \* AudioLoop harness: native duration of the track
MaxTarget    == 5    \* AudioLoop harness: target duration
MaxProducers == 3    \* seq harness: number of producers passed to seq

FPS == 8

(***************************************************************************)
(* Effect descriptors and the effect primitives (lines 178-215).  Times    *)
(* are in ms, zoom factors in hundredths, angles in degrees; -1 stands     *)
(* for Freeze's t = "end".                                                 *)
(***************************************************************************)
Fx(kind, p1, p2) == [kind |-> kind, p1 |-> p1, p2 |-> p2]

fade == <<Fx("FadeIn", 800, 0), Fx("FadeOut", 800, 0)>>
slide_in == <<Fx("SlideIn", 800, 0)>>
rotate(deg) == <<Fx("Rotate", deg, 0)>>
mirror == <<Fx("MirrorX", 0, 0)>>
zoom(factor) == <<Fx("Resize", factor, 0)>>
margin(size) == <<Fx("Margin", size, 0)>>
blink(on, off) == <<Fx("Blink", on, off)>>
freeze(at) == <<Fx("Freeze", at, per_clip_duration * 1000)>>
time_sym == <<Fx("TimeSymmetrize", 0, 0)>>
orbit_zoom == rotate(45) \o zoom(15)
pulsate_glow == margin(40) \o blink(150, 150)

\* The producers a registry entry or a call of seq can name.
Producers == {"fade", "slide_in", "mirror", "rotate45", "freeze",
              "freeze_start", "freeze_end", "time_sym", "orbit_zoom",
              "pulsate_glow"}

\* f(): calling the producer named p.
Call(p) ==
    CASE p = "fade" -> fade
      [] p = "slide_in" -> slide_in
      [] p = "mirror" -> mirror
      [] p = "rotate45" -> rotate(45)
      [] p = "freeze" -> freeze(-1)
      [] p = "freeze_start" -> freeze(0)
      [] p = "freeze_end" -> freeze(per_clip_duration * 1000 - 100)
      [] p = "time_sym" -> time_sym
      [] p = "orbit_zoom" -> orbit_zoom
      [] p = "pulsate_glow" -> pulsate_glow

\* effects.extend(f()) with the arguments swapped.
seq_prepend(effect_funcs) ==
    LET RECURSIVE loop(_, _)
        loop(i, effects) ==
            IF i > Len(effect_funcs) THEN effects
            ELSE loop(i + 1, Call(effect_funcs[i]) \o effects)
    IN loop(1, <<>>)

\* seq(*effect_funcs): effects = []; for f in effect_funcs: effects.extend(f())
seq(effect_funcs) ==
    LET RECURSIVE loop(_, _)
        loop(i, effects) ==
            IF i > Len(effect_funcs) THEN effects
            ELSE loop(i + 1, effects \o Call(effect_funcs[i]))
    IN loop(1, <<>>)

(***************************************************************************)
(* Building one clip (lines 102-120, 225-239).                             *)
(***************************************************************************)
Max(a, b) == IF a >= b THEN a ELSE b

\* effect.apply(clip), as far as the clip's duration goes.
ApplyEffect(fx, dur) ==
    CASE fx.kind = "Freeze" ->
           LET t == IF fx.p1 = -1 THEN dur - (1000 \div FPS) ELSE fx.p1
               before == IF t # 0 THEN t ELSE 0
               after == IF t # dur THEN dur - t ELSE 0
           IN before + fx.p2 + after
      [] fx.kind = "TimeSymmetrize" -> dur + dur
      [] OTHER -> dur

\* clip.with_effects(effects): each effect applied to the result of the last.
with_effects(dur, effects) ==
    LET RECURSIVE loop(_, _)
        loop(i, d) ==
            IF i > Len(effects) THEN d
            ELSE loop(i + 1, ApplyEffect(effects[i], d))
    IN loop(1, dur)

\* make_clip(label, effects): CompositeVideoClip([base, txt])
make_clip(label, effects) ==
    LET base == with_effects(per_clip_duration * 1000, effects)
        txt == per_clip_duration * 1000
    IN [label |-> label, fx |-> effects, duration |-> Max(base, txt)]

\* clips.append(...) putting the new clip first.
clips_prepend(cl, clip) == <<clip>> \o cl

\* clips.append(CompositeVideoClip([base_clip, text_clip]))
clips_append(cl, clip) == Append(cl, clip)

(***************************************************************************)
(* Concatenation, total duration and audio looping.                        *)
(***************************************************************************)
NoVideo == [built |-> FALSE, segments |-> <<>>, duration |-> 0,
            has_audio |-> FALSE, audio |-> <<>>]

SumDurations(cl) ==
    LET RECURSIVE sum(_)
        sum(i) == IF i > Len(cl) THEN 0 ELSE cl[i].duration + sum(i + 1)
    IN sum(1)

\* concatenate_videoclips(clips, method="compose")
concatenate_videoclips(cl) ==
    IF cl = <<>>
    THEN [ok |-> FALSE, clip |-> NoVideo]
    ELSE [ok |-> TRUE,
          clip |-> [built |-> TRUE, segments |-> cl,
                    duration |-> SumDurations(cl),
                    has_audio |-> FALSE, audio |-> <<>>]]

\* len(clips) * PER_CLIP_DURATION with the count off by one.
TotalDurationShort(cl) == (Len(cl) - 1) * per_clip_duration

\* len(clips) * PER_CLIP_DURATION
TotalDuration(cl) == Len(cl) * per_clip_duration

\* int(duration / clip.duration) without the + 1.
n_loops_short(duration, clip) == duration \div Len(clip)

\* AudioLoop: n_loops = int(self.duration / clip.duration) + 1
n_loops(duration, clip) == (duration \div Len(clip)) + 1

\* concatenate_audioclips(n * [clip])
concatenate_audioclips(n, clip) ==
    LET RECURSIVE rep(_)
        rep(k) == IF k <= 0 THEN <<>> ELSE clip \o rep(k - 1)
    IN rep(n)

\* with_duration starting one sample late.
with_duration_late(track, duration) ==
    [t \in 1..duration |-> IF t + 1 <= Len(track) THEN track[t + 1] ELSE 0]

\* clip.with_duration(duration) on an audio clip: the clip ends at duration;
\* past the end of its content it is silent (0).
with_duration(track, duration) ==
    [t \in 1..duration |-> IF t <= Len(track) THEN track[t] ELSE 0]

\* audio_clip.with_effects([afx.AudioLoop(duration=duration)])
AudioLoop(clip, duration) ==
    with_duration(concatenate_audioclips(n_loops(duration, clip), clip),
                  duration)

(***************************************************************************)
(* The inputs.                                                             *)
(***************************************************************************)
Catalogue ==
    { [label |-> "Fade In / Out", producers |-> <<"fade">>],
      [label |-> "Freeze End", producers |-> <<"freeze">>],
      [label |-> "Time Symmetrize", producers |-> <<"time_sym">>],
      [label |-> "Mirror + Rotate 45", producers |-> <<"mirror", "rotate45">>] }

SeqsUpTo(S, n) == UNION { [1..k -> S] : k \in 0..n }

Track(a) == [t \in 1..a |-> t]

\* What is at output_path when the run starts: the scripts bind the path
\* (lines 27, 167) and never look at it or remove what is there.
OutputBefore == IF stale_output THEN "stale" ELSE "none"

FitIdle ==
    /\ fit_in = <<>>
    /\ fit_target = 0
    /\ fit_out = <<>>
    /\ fit_again = <<>>
    /\ fit_stage = 0

SeqIdle ==
    /\ seq_args = <<>>
    /\ seq_out = <<>>
    /\ seq_done = FALSE

PipelineIdle ==
    /\ registry = <<>>
    /\ registry2 = <<>>
    /\ image_ok = TRUE
    /\ audio_ok = TRUE
    /\ textclip_ok = TRUE
    /\ stale_output = FALSE
    /\ song = <<>>
    /\ script = 1
    /\ comp = <<>>
    /\ pc = "idle"
    /\ clips = <<>>
    /\ video = NoVideo
    /\ total_duration = 0
    /\ audio_clip = <<>>
    /\ audio_looped = <<>>
    /\ output = "none"
    /\ err = "none"
    /\ failed_at = "none"
    /\ log = <<>>

(***************************************************************************)
(* The two scripts (lines 100-142, then lines 143-284).                    *)
(***************************************************************************)
Init ==
    /\ registry \in SeqsUpTo(Catalogue, MaxEntries)
    /\ registry2 \in SeqsUpTo(Catalogue, MaxEntries2)
    /\ per_clip_duration \in 1..MaxPerClip
    /\ image_ok \in BOOLEAN
    /\ audio_ok \in BOOLEAN
    /\ textclip_ok \in BOOLEAN
    /\ stale_output \in BOOLEAN
    /\ song \in { Track(a) : a \in 1..MaxAudio }
    /\ script = 1
    /\ comp = <<>>
    /\ pc = "build"
    /\ clips = <<>>
    /\ video = NoVideo
    /\ total_duration = 0
    /\ audio_clip = <<>>
    /\ audio_looped = <<>>
    /\ output = OutputBefore
    /\ err = "none"
    /\ failed_at = "none"
    /\ log = <<>>
    /\ FitIdle
    /\ SeqIdle

Stmt(s, stmt) == [script |-> s, stmt |-> stmt]

\* An uncaught exception ends the process.  The scripts never write their
\* inputs.
Raise(stmt, exception) ==
    /\ pc' = "failed"
    /\ err' = exception
    /\ failed_at' = stmt
    /\ log' = Append(log, Stmt(script, stmt))
    /\ UNCHANGED <<inputs, script, per_clip_duration, fit_vars, seq_vars>>

Goto(stmt, next) ==
    /\ pc' = next
    /\ log' = Append(log, Stmt(script, stmt))
    /\ UNCHANGED <<err, failed_at>>
    /\ UNCHANGED <<inputs, script, per_clip_duration, fit_vars, seq_vars>>

\* One iteration of the build loop: ImageClip(image_path) ... clips.append
Build ==
    /\ script = 1
    /\ pc = "build"
    /\ Len(clips) < Len(registry)
    /\ LET entry == registry[Len(clips) + 1] IN
         IF image_ok
         THEN /\ clips' = clips_append(clips,
                              make_clip(entry.label, seq(entry.producers)))
              /\ Goto("build", "build")
         ELSE /\ Raise("build", "OSError")
              /\ UNCHANGED clips
    /\ UNCHANGED <<comp, video, total_duration, audio_clip, audio_looped,
                   output>>

\* video = concatenate_videoclips(clips, method="compose")
Concatenate ==
    /\ script = 1
    /\ pc = "build"
    /\ Len(clips) = Len(registry)
    /\ LET r == concatenate_videoclips(clips) IN
         IF r.ok
         THEN /\ video' = r.clip
              /\ Goto("concatenate", "total_duration")
         ELSE /\ Raise("concatenate", "ValueError")
              /\ UNCHANGED video
    /\ UNCHANGED <<comp, clips, total_duration, audio_clip, audio_looped,
                   output>>

\* total_duration = len(clips) * PER_CLIP_DURATION
ComputeTotal ==
    /\ script = 1
    /\ pc = "total_duration"
    /\ total_duration' = TotalDuration(clips)
    /\ Goto("total_duration", "load_audio")
    /\ UNCHANGED <<comp, clips, video, audio_clip, audio_looped, output>>

\* AudioFileClip(audio_path) before the first clip is built.
LoadAudioFirst ==
    /\ script = 1
    /\ pc = "build"
    /\ clips = <<>>
    /\ audio_clip = <<>>
    /\ IF audio_ok
       THEN /\ audio_clip' = song
            /\ Goto("load_audio", "build")
       ELSE /\ Raise("load_audio", "OSError")
            /\ UNCHANGED audio_clip
    /\ UNCHANGED <<comp, clips, video, total_duration, audio_looped, output>>

\* audio_clip = AudioFileClip(audio_path)
LoadAudio ==
    /\ script = 1
    /\ pc = "load_audio"
    /\ IF audio_ok
       THEN /\ audio_clip' = song
            /\ Goto("load_audio", "audio_loop")
       ELSE /\ Raise("load_audio", "OSError")
            /\ UNCHANGED audio_clip
    /\ UNCHANGED <<comp, clips, video, total_duration, audio_looped, output>>

\* audio_looped = audio_clip.with_effects([afx.AudioLoop(duration=total_duration)])
FitAudio ==
    /\ script = 1
    /\ pc = "audio_loop"
    /\ audio_looped' = AudioLoop(audio_clip, total_duration)
    /\ Goto("audio_loop", "with_audio")
    /\ UNCHANGED <<comp, clips, video, total_duration, audio_clip, output>>

\* video = video.with_audio(audio_looped)
AttachAudio ==
    /\ script = 1
    /\ pc = "with_audio"
    /\ video' = [video EXCEPT !.has_audio = TRUE, !.audio = audio_looped]
    /\ Goto("with_audio", "write_videofile")
    /\ UNCHANGED <<comp, clips, total_duration, audio_clip, audio_looped,
                   output>>

\* write_videofile that tries again when the encoder fails.
RenderRetry ==
    /\ script = 1
    /\ pc = "write_videofile"
    /\ \/ /\ output' = "complete"
          /\ Goto("write_videofile", "second")
       \/ /\ output' \in {output, "partial"}
          /\ Goto("write_videofile", "write_videofile")
    /\ UNCHANGED <<comp, clips, video, total_duration, audio_clip,
                   audio_looped>>

\* video.write_videofile(output_path, ...): the external encoder either
\* writes the file, and the second script follows, or fails; the script
\* removes nothing, so what a failed encode leaves at output_path (what was
\* there, or a partial file) is the encoder's.
Render ==
    /\ script = 1
    /\ pc = "write_videofile"
    /\ \/ /\ output' = "complete"
          /\ Goto("write_videofile", "second")
       \/ /\ output' \in {output, "partial"}
          /\ Raise("write_videofile", "OSError")
    /\ UNCHANGED <<comp, clips, video, total_duration, audio_clip,
                   audio_looped>>

\* Lines 143-266: the second script's imports, parameters, effect
\* primitives and ANIMATIONS; the names of the first script stay bound
\* until the second one rebinds them.
StartSecond ==
    /\ script = 1
    /\ pc = "second"
    /\ script' = 2
    /\ pc' = "build"
    /\ comp' = <<>>
    /\ UNCHANGED <<inputs, per_clip_duration, clips, video, total_duration,
                   audio_clip, audio_looped, output, err, failed_at, log,
                   fit_vars, seq_vars>>

\* One make_clip(label, fx) of the comprehension of line 269: ImageClip,
\* then TextClip(label, fontsize=...), then CompositeVideoClip.
Build2 ==
    /\ script = 2
    /\ pc = "build"
    /\ Len(comp) < Len(registry2)
    /\ LET entry == registry2[Len(comp) + 1] IN
         IF ~image_ok
         THEN /\ Raise("build", "OSError")
              /\ UNCHANGED comp
         ELSE IF ~textclip_ok
         THEN /\ Raise("build", "TypeError")
              /\ UNCHANGED comp
         ELSE /\ comp' = clips_append(comp,
                             make_clip(entry.label, seq(entry.producers)))
              /\ Goto("build", "build")
    /\ UNCHANGED <<clips, video, total_duration, audio_clip, audio_looped,
                   output>>

\* clips = [...] once the comprehension is through, and
\* video = concatenate_videoclips(clips, method="compose")
Concatenate2 ==
    /\ script = 2
    /\ pc = "build"
    /\ Len(comp) = Len(registry2)
    /\ clips' = comp
    /\ LET r == concatenate_videoclips(comp) IN
         IF r.ok
         THEN /\ video' = r.clip
              /\ Goto("concatenate", "load_audio")
         ELSE /\ Raise("concatenate", "ValueError")
              /\ UNCHANGED video
    /\ UNCHANGED <<comp, total_duration, audio_clip, audio_looped, output>>

\* audio_clip = AudioFileClip(audio_path)
LoadAudio2 ==
    /\ script = 2
    /\ pc = "load_audio"
    /\ IF audio_ok
       THEN /\ audio_clip' = song
            /\ Goto("load_audio", "audio_loop")
       ELSE /\ Raise("load_audio", "OSError")
            /\ UNCHANGED audio_clip
    /\ UNCHANGED <<comp, clips, video, total_duration, audio_looped, output>>

\* audio_looped = audio_clip.with_effects(
\*     [afx.AudioLoop(duration=len(clips)*PER_CLIP_DURATION)])
FitAudio2 ==
    /\ script = 2
    /\ pc = "audio_loop"
    /\ audio_looped' = AudioLoop(audio_clip, TotalDuration(clips))
    /\ Goto("audio_loop", "with_audio")
    /\ UNCHANGED <<comp, clips, video, total_duration, audio_clip, output>>

\* video = video.with_audio(audio_looped)
AttachAudio2 ==
    /\ script = 2
    /\ pc = "with_audio"
    /\ video' = [video EXCEPT !.has_audio = TRUE, !.audio = audio_looped]
    /\ Goto("with_audio", "write_videofile")
    /\ UNCHANGED <<comp, clips, total_duration, audio_clip, audio_looped,
                   output>>

\* video.write_videofile(output_path, ...) of the second script, on the
\* file the first script wrote.
Render2 ==
    /\ script = 2
    /\ pc = "write_videofile"
    /\ \/ /\ output' = "complete"
          /\ Goto("write_videofile", "done")
       \/ /\ output' \in {output, "partial"}
          /\ Raise("write_videofile", "OSError")
    /\ UNCHANGED <<comp, clips, video, total_duration, audio_clip,
                   audio_looped>>

Next ==
    \/ Build
    \/ Concatenate
    \/ ComputeTotal
    \/ LoadAudio
    \/ FitAudio
    \/ AttachAudio
    \/ Render
    \/ StartSecond
    \/ Build2
    \/ Concatenate2
    \/ LoadAudio2
    \/ FitAudio2
    \/ AttachAudio2
    \/ Render2

Spec == Init /\ [][Next]_vars

(***************************************************************************)
(* AudioLoop applied on its own: a track of positive native duration is    *)
(* fitted to a positive target, and the fitted track is fitted again.      *)
(***************************************************************************)
Samples == {1, 2}

InitFit ==
    /\ PipelineIdle
    /\ SeqIdle
    /\ per_clip_duration \in 1..MaxPerClip
    /\ fit_in \in SeqsUpTo(Samples, MaxTrackLen) \ {<<>>}
    /\ fit_target \in 1..MaxTarget
    /\ fit_out = <<>>
    /\ fit_again = <<>>
    /\ fit_stage = 0

FitOnce ==
    /\ fit_stage = 0
    /\ fit_out' = AudioLoop(fit_in, fit_target)
    /\ fit_stage' = 1
    /\ UNCHANGED <<fit_in, fit_target, fit_again>>
    /\ UNCHANGED <<pipeline_vars, per_clip_duration, seq_vars>>

FitAgain ==
    /\ fit_stage = 1
    /\ fit_again' = AudioLoop(fit_out, fit_target)
    /\ fit_stage' = 2
    /\ UNCHANGED <<fit_in, fit_target, fit_out>>
    /\ UNCHANGED <<pipeline_vars, per_clip_duration, seq_vars>>

NextFit ==
    \/ FitOnce
    \/ FitAgain

SpecFit == InitFit /\ [][NextFit]_vars

(***************************************************************************)
(* seq applied on its own to any list of producers.                        *)
(***************************************************************************)
InitSeq ==
    /\ PipelineIdle
    /\ FitIdle
    /\ per_clip_duration \in 1..MaxPerClip
    /\ seq_args \in SeqsUpTo(Producers, MaxProducers)
    /\ seq_out = <<>>
    /\ seq_done = FALSE

CallSeq ==
    /\ ~seq_done
    /\ seq_out' = seq(seq_args)
    /\ seq_done' = TRUE
    /\ UNCHANGED seq_args
    /\ UNCHANGED <<pipeline_vars, per_clip_duration, fit_vars>>

NextSeq == CallSeq

SpecSeq == InitSeq /\ [][NextSeq]_vars

(***************************************************************************)
(* Properties.                                                             *)
(***************************************************************************)
Executed(s, stmt) == \E i \in 1..Len(log) : log[i] = Stmt(s, stmt)

Succeeded(s, stmt) ==
    /\ Executed(s, stmt)
    /\ ~(pc = "failed" /\ script = s /\ failed_at = stmt)

VideoMatches(reg) ==
    /\ video.built
    /\ Len(video.segments) = Len(reg)
    /\ \A i \in 1..Len(reg) :
          /\ video.segments[i].label = reg[i].label
          /\ video.segments[i].fx = seq(reg[i].producers)

\* C1: once a script has concatenated its clips, the video holds one
\* segment per entry of that script's registry, and its i-th segment
\* carries the label and the effect list of the i-th entry.
C1_RegistryOrder ==
    /\ (Succeeded(1, "concatenate") /\ ~Succeeded(2, "concatenate")) =>
          VideoMatches(registry)
    /\ Succeeded(2, "concatenate") => VideoMatches(registry2)

C1_Witness ==
    /\ script = 1
    /\ video.built
    /\ Len(registry) = 2
    /\ registry[1].label = "Mirror + Rotate 45"
    /\ registry[2].label = "Fade In / Out"
    /\ video.segments[1].fx = <<Fx("MirrorX", 0, 0), Fx("Rotate", 45, 0)>>

\* C2: the total duration a script computes is n * d for n registry
\* entries of d seconds, and the looped audio lasts exactly that long.
C2_TotalDuration ==
    /\ Executed(1, "total_duration") =>
          total_duration = Len(registry) * per_clip_duration
    /\ (Executed(1, "audio_loop") /\ ~Executed(2, "audio_loop")) =>
          Len(audio_looped) = Len(registry) * per_clip_duration
    /\ Executed(2, "audio_loop") =>
          Len(audio_looped) = Len(registry2) * per_clip_duration

C2_Witness ==
    /\ script = 1
    /\ Executed(1, "audio_loop")
    /\ Len(registry) = 2
    /\ per_clip_duration = 2
    /\ total_duration = 4
    /\ Len(audio_looped) = 4

\* C3: the fitted track lasts exactly the target D, and its content at
\* second t is the source's content at second ((t - 1) mod A) + 1: the
\* source repeated from its start and cut at D when A < D, the first D
\* seconds of the source when A >= D.
C3_FitDuration ==
    fit_stage >= 1 =>
        /\ Len(fit_out) = fit_target
        /\ \A t \in 1..fit_target :
              fit_out[t] = fit_in[((t - 1) % Len(fit_in)) + 1]
        /\ Len(fit_in) >= fit_target => fit_out = SubSeq(fit_in, 1, fit_target)

C3_Witness ==
    /\ fit_stage = 1
    /\ fit_in = <<1, 2, 2>>
    /\ fit_target = 4
    /\ fit_out = <<1, 2, 2, 1>>

\* C4: every clip built lasts exactly PER_CLIP_DURATION, so the clips'
\* durations add up to len(clips) * PER_CLIP_DURATION.
C4_SegmentDuration ==
    /\ \A i \in 1..Len(clips) : clips[i].duration = per_clip_duration * 1000
    /\ SumDurations(clips) = Len(clips) * per_clip_duration * 1000

\* C5: with an empty registry the assemble step ends the run in an explicit
\* EmptyTimelineError, and no video is produced.  (The scripts have no
\* check of their own: the run ends in the ValueError that
\* concatenate_videoclips raises on an empty list.)
C5_EmptyTimelineError ==
    (registry = <<>> /\ pc # "build") =>
        /\ pc = "failed"
        /\ err = "EmptyTimelineError"
        /\ ~video.built

\* C6: seq returns the producers' outputs concatenated in argument order:
\* the output of the i-th producer sits, in its own order, right after the
\* outputs of the producers before it, and nothing else is in the list;
\* swapping two producers whose outputs do not commute changes the result.
PartsBefore(args, i) ==
    LET RECURSIVE count(_)
        count(k) == IF k >= i THEN 0 ELSE Len(Call(args[k])) + count(k + 1)
    IN count(1)

C6_SeqConcatenates ==
    seq_done =>
        /\ Len(seq_out) = PartsBefore(seq_args, Len(seq_args) + 1)
        /\ \A i \in 1..Len(seq_args) :
              \A j \in 1..Len(Call(seq_args[i])) :
                 seq_out[PartsBefore(seq_args, i) + j] = Call(seq_args[i])[j]
        /\ Len(seq_args) = 2 =>
              LET a == Call(seq_args[1])
                  b == Call(seq_args[2])
              IN (a \o b # b \o a) =>
                    /\ seq_out = a \o b
                    /\ seq_out # seq(<<seq_args[2], seq_args[1]>>)

C6_Witness ==
    /\ seq_done
    /\ seq_args = <<"orbit_zoom", "fade">>
    /\ seq_out = <<Fx("Rotate", 45, 0), Fx("Resize", 15, 0),
                   Fx("FadeIn", 800, 0), Fx("FadeOut", 800, 0)>>

\* C7: fitting the fitted track to the same target again returns the same
\* track, and a track whose native duration is the target comes back
\* unchanged.
C7_FitIdempotent ==
    /\ fit_stage = 2 => fit_again = fit_out
    /\ (fit_stage >= 1 /\ Len(fit_in) = fit_target) => fit_out = fit_in

C7_Witness ==
    /\ fit_stage = 2
    /\ fit_in = <<1, 2>>
    /\ fit_target = 3
    /\ fit_again = <<1, 2, 1>>

\* C8 as stated: when the song cannot be loaded, the run fails while no
\* clip is built yet and before the clips are concatenated.
C8_AudioFailsFirst ==
    failed_at = "load_audio" =>
        /\ clips = <<>>
        /\ ~Executed(1, "concatenate")

\* C8, amended: a missing image ends the run in the first iteration of the
\* build loop, with no clip built; a song that cannot be loaded ends the
\* run only after every clip is built and the clips are concatenated, and
\* before the audio is looped or anything is rendered.
C8_ResourceFailures ==
    /\ (failed_at = "build" /\ err = "OSError") =>
          /\ ~image_ok
          /\ pc = "failed"
          /\ script = 1
          /\ clips = <<>>
          /\ ~video.built
    /\ (~image_ok /\ Executed(1, "build")) => failed_at = "build"
    /\ failed_at = "load_audio" =>
          /\ ~audio_ok
          /\ pc = "failed"
          /\ script = 1
          /\ clips # <<>>
          /\ Len(clips) = Len(registry)
          /\ VideoMatches(registry)
          /\ audio_looped = <<>>
          /\ ~Executed(1, "audio_loop")
          /\ ~Executed(1, "write_videofile")
          /\ output = OutputBefore
    /\ (~audio_ok /\ Executed(1, "load_audio")) => failed_at = "load_audio"

C8_Witness ==
    /\ failed_at = "load_audio"
    /\ Len(clips) = 2
    /\ video.built

\* C9 as stated: whatever stage fails, no output file (of this run or of
\* an earlier one) exists at the end.
C9_NoOutputOnFailure ==
    pc = "failed" => output = "none"

\* C9, amended: a failure ends the run at the failing statement, no
\* statement runs after it and none runs twice (a build runs once per
\* entry).  When the first script fails before its encode, the output
\* path holds what it held before the run (nothing, or an earlier file);
\* a failed encode may leave a partial file; when the second script fails
\* before its encode, the file the first script wrote is still there.  A
\* complete file written by the run exists only when every stage of the
\* first script succeeded.
Rank(stmt) ==
    CASE stmt = "build" -> 1
      [] stmt = "concatenate" -> 2
      [] stmt = "total_duration" -> 3
      [] stmt = "load_audio" -> 4
      [] stmt = "audio_loop" -> 5
      [] stmt = "with_audio" -> 6
      [] stmt = "write_videofile" -> 7

Before(a, b) ==
    \/ a.script < b.script
    \/ a.script = b.script /\ Rank(a.stmt) < Rank(b.stmt)

Builds(s) == Len(SelectSeq(log, LAMBDA e : e = Stmt(s, "build")))

C9_FailFast ==
    /\ \A i \in 1..(Len(log) - 1) :
          \/ Before(log[i], log[i + 1])
          \/ log[i].stmt = "build" /\ log[i + 1] = log[i]
    /\ Builds(1) <= Max(Len(registry), 1)
    /\ Builds(2) <= Max(Len(registry2), 1)
    /\ pc = "failed" =>
          /\ log[Len(log)] = Stmt(script, failed_at)
          /\ err # "none"
          /\ ~ENABLED Next
          /\ script = 1 => output # "complete"
          /\ (script = 1 /\ failed_at # "write_videofile") =>
                output = OutputBefore
          /\ (script = 1 /\ failed_at = "write_videofile") =>
                output \in {OutputBefore, "partial"}
          /\ (script = 2 /\ failed_at = "write_videofile") =>
                output \in {"complete", "partial"}
          /\ (script = 2 /\ failed_at # "write_videofile") =>
                output = "complete"
    /\ output # OutputBefore => Executed(1, "write_videofile")
    /\ output = "complete" =>
          /\ Succeeded(1, "write_videofile")
          /\ Builds(1) = Len(registry)
          /\ \A stmt \in {"concatenate", "total_duration", "load_audio",
                          "audio_loop", "with_audio"} : Executed(1, stmt)
    /\ pc = "done" =>
          /\ output = "complete"
          /\ err = "none"
          /\ Len(log) = Len(registry) + 6 + Len(registry2) + 5
          /\ VideoMatches(registry2) /\ video.has_audio

C9_Witness ==
    /\ pc = "failed"
    /\ script = 2
    /\ failed_at = "build"
    /\ err = "TypeError"
    /\ output = "complete"
    /\ Len(clips) = Len(registry)

\* C10: a script does not get as far as attaching the looped audio and
\* rendering with a video whose length differs from the duration the audio
\* was looped to.
C10_MismatchFails ==
    video.has_audio => video.duration = Len(video.audio) * 1000

====
